---- MODULE Spec2Model ----
(***************************************************************************)
(* A model of gtemp (src/src/gtemp/__init__.py): the template validator,   *)
(* the template renderer and the orchestrator main().                      *)
(*                                                                         *)
(* Python strings are TLA+ strings; str.replace, the `in` test and the     *)
(* pathlib name operations (stem, suffix, with_suffix) are computed        *)
(* character by character.  A path is a record [dir, name]; the file       *)
(* system maps a directory to a function from file names to contents.      *)
(***************************************************************************)
EXTENDS Integers, Sequences, FiniteSets, TLC

VARIABLES
    fs,               \* the file system: directory -> (file name -> content)
    fs0,              \* the file system at start-up (history)
    gcode_templates,  \* the candidate list handed to validate / render
    nozzle_temps,     \* the temperature list handed to render
    output,           \* the output directory handed to render
    validated,        \* << >> or <<result of the latest validate call>>
    written,          \* the write_text calls of the latest render call
    reported,         \* << >> or <<count printed by the latest render call>>
    renders,          \* number of completed render calls
    argv,             \* the command line options given to main
    stdin,            \* the line the operator types at the prompt
    exit,             \* << >> or <<how main ended>>
    phases            \* the orchestrator positions main went through

vars == <<fs, fs0, gcode_templates, nozzle_temps, output, validated, written,
          reported, renders, argv, stdin, exit, phases>>

---------------------------------------------------------------------------
(* Bounds of the model *)

MaxTemplates == 2
MaxTemps == 2
MaxRenders == 2

---------------------------------------------------------------------------
(* Module constants, lines 10-54 *)

GCODE_SUFFIX == ".gcode"
GCODE_TEMPLATE_SUFFIX == ".gtemplate"
NOZZLE_TEMP_CGODE_COMMAND == "M104"
NOZZLE_TEMP_TEMPLATE_TEXT == "##NOZZLETEMP##"

NOZZLE_TEMP_PRESETS ==
    [ k \in {"PLA", "PETG", "PETG-CF"} |->
        IF k = "PLA"
        THEN <<230, 225, 220, 215, 210, 205, 200, 195, 190>>
        ELSE <<260, 255, 250, 245, 240, 235, 230, 225, 220, 215, 210>> ]

---------------------------------------------------------------------------
(* Python str operations *)

\* s[i-1 : i-1+len(sub)] == sub
MatchAt(s, sub, i) ==
    /\ i >= 1
    /\ i + Len(sub) - 1 <= Len(s)
    /\ SubSeq(s, i, i + Len(sub) - 1) = sub

\* str.find from position i (1-based): the first match at or after i, 0 if none
RECURSIVE Find(_, _, _)
Find(s, sub, i) ==
    IF i + Len(sub) - 1 > Len(s) THEN 0
    ELSE IF MatchAt(s, sub, i) THEN i
    ELSE Find(s, sub, i + 1)

\* sub in s
StrIn(sub, s) == Find(s, sub, 1) # 0

\* str.rfind(c): the last position of the one-character string c, 0 if none
RECURSIVE RFind(_, _, _)
RFind(s, c, i) ==
    IF i < 1 THEN 0
    ELSE IF SubSeq(s, i, i) = c THEN i
    ELSE RFind(s, c, i - 1)

RECURSIVE ReplaceFrom(_, _, _, _)
ReplaceFrom(s, old, new, i) ==
    IF i > Len(s) THEN ""
    ELSE IF MatchAt(s, old, i)
         THEN new \o ReplaceFrom(s, old, new, i + Len(old))
         ELSE SubSeq(s, i, i) \o ReplaceFrom(s, old, new, i + 1)

\* only the first occurrence is replaced (str.replace(old, new, 1))
ReplaceFirst(s, old, new) ==
    LET i == Find(s, old, 1)
    IN  IF i = 0 THEN s
        ELSE SubSeq(s, 1, i - 1) \o new \o SubSeq(s, i + Len(old), Len(s))

\* s.replace(old, new): every non-overlapping occurrence, left to right
Replace(s, old, new) == ReplaceFrom(s, old, new, 1)

\* f"{n}" for an int n
Str(n) == ToString(n)

\* str.lower on ASCII text
RECURSIVE LowerFrom(_, _)
LowerFrom(s, i) ==
    IF i > Len(s) THEN ""
    ELSE LET c == SubSeq(s, i, i)
             k == Find("ABCDEFGHIJKLMNOPQRSTUVWXYZ", c, 1)
         IN  (IF k = 0 THEN c
              ELSE SubSeq("abcdefghijklmnopqrstuvwxyz", k, k))
             \o LowerFrom(s, i + 1)

Lower(s) == LowerFrom(s, 1)

---------------------------------------------------------------------------
(* pathlib *)

\* PurePath.suffix on a file name: from the last dot, unless that dot is the
\* first or the last character of the name
Suffix(name) ==
    LET i == RFind(name, ".", Len(name))
    IN  IF 1 < i /\ i < Len(name) THEN SubSeq(name, i, Len(name)) ELSE ""

\* PurePath.stem
Stem(name) ==
    LET i == RFind(name, ".", Len(name))
    IN  IF 1 < i /\ i < Len(name) THEN SubSeq(name, 1, i - 1) ELSE name

\* output / modified_filename
Join(dir, name) == [dir |-> dir, name |-> name]

\* the result of with_suffix is dropped: the path stays as it was
WithSuffixDropped(path, suffix) == path

\* PurePath.with_suffix: the current suffix, if any, is replaced
WithSuffix(path, suffix) ==
    LET old == Suffix(path.name)
    IN  [path EXCEPT !.name =
            SubSeq(path.name, 1, Len(path.name) - Len(old)) \o suffix]

\* Path.read_text
ReadText(files, path) == files[path.dir][path.name]

\* the file is opened in append mode
WriteTextAppend(files, path, content) ==
    [files EXCEPT ![path.dir] =
        (path.name :> (IF path.name \in DOMAIN files[path.dir]
                       THEN files[path.dir][path.name] \o content
                       ELSE content)) @@ @]

\* Path.write_text: create the file or overwrite it
WriteText(files, path, content) ==
    [files EXCEPT ![path.dir] = (path.name :> content) @@ @]

\* Path.is_dir
IsDir(files, dir) == dir \in DOMAIN files

\* name matches the glob pattern "*" + suffix
EndsWith(name, suffix) ==
    /\ Len(name) >= Len(suffix)
    /\ SubSeq(name, Len(name) - Len(suffix) + 1, Len(name)) = suffix

---------------------------------------------------------------------------
(* Template Validator, lines 57-94 *)

\* line 84
FilenameInvalid(t) == ~StrIn(NOZZLE_TEMP_TEMPLATE_TEXT, t.name)

\* lines 92-93
ContentInvalid(t, files) ==
    ~StrIn(NOZZLE_TEMP_CGODE_COMMAND \o " " \o NOZZLE_TEMP_TEMPLATE_TEXT,
           ReadText(files, t))

\* the comprehension of lines 81-85, from the i-th candidate on
RECURSIVE FilenameErrorsFrom(_, _)
FilenameErrorsFrom(templates, i) ==
    IF i > Len(templates) THEN << >>
    ELSE IF FilenameInvalid(templates[i])
         THEN <<templates[i].name>> \o FilenameErrorsFrom(templates, i + 1)
         ELSE FilenameErrorsFrom(templates, i + 1)

\* the comprehension of lines 89-94, from the i-th candidate on
RECURSIVE ContentErrorsFrom(_, _, _)
ContentErrorsFrom(templates, files, i) ==
    IF i > Len(templates) THEN << >>
    ELSE IF ContentInvalid(templates[i], files)
         THEN <<templates[i].name>> \o ContentErrorsFrom(templates, files, i + 1)
         ELSE ContentErrorsFrom(templates, files, i + 1)

\* the scan stops at the first violation
RECURSIVE ContentErrorsFailFast(_, _, _)
ContentErrorsFailFast(templates, files, i) ==
    IF i > Len(templates) THEN << >>
    ELSE IF ContentInvalid(templates[i], files) THEN <<templates[i].name>>
         ELSE ContentErrorsFailFast(templates, files, i + 1)

validate_gcode_template_filenames(templates) ==
    FilenameErrorsFrom(templates, 1)

\* the content check that gives up after the first violation
validate_contents_fail_fast(templates, files) ==
    ContentErrorsFailFast(templates, files, 1)

validate_gcode_template_contents(templates, files) ==
    ContentErrorsFrom(templates, files, 1)

\* lines 61-77: the return value and the two lists the function prints
ValidationReport(template_filename_errors, template_content_errors) ==
    [ ok |-> ~(template_filename_errors # << >>
               \/ template_content_errors # << >>),
      filename_errors |-> template_filename_errors,
      content_errors |-> template_content_errors ]

validate_gcode_templates(templates, files) ==
    ValidationReport(validate_gcode_template_filenames(templates),
                     validate_gcode_template_contents(templates, files))

---------------------------------------------------------------------------
(* Template Renderer, lines 97-121 *)

\* lines 119-121: the progress line and the write
WriteStep(st, i, j, modified_file, modified_content) ==
    [ files |-> WriteText(st.files, modified_file, modified_content),
      written |-> Append(st.written,
                         [ path |-> modified_file, content |-> modified_content,
                           i |-> i, j |-> j ]) ]

\* the inner loop, lines 107-121, from the j-th temperature on;
\* st = [files, written]
RECURSIVE RenderTemps(_, _, _, _, _, _, _)
RenderTemps(st, i, gcode_template, original_content, temps, out, j) ==
    IF j > Len(temps) THEN st
    ELSE
      LET nozzle_temp == temps[j]
          modified_content ==
              Replace(original_content, NOZZLE_TEMP_TEMPLATE_TEXT,
                      "S" \o Str(nozzle_temp))
          modified_filename ==
              Replace(Stem(gcode_template.name), NOZZLE_TEMP_TEMPLATE_TEXT,
                      Str(nozzle_temp) \o "C")
          modified_file == WithSuffix(Join(out, modified_filename), GCODE_SUFFIX)
      IN  RenderTemps(WriteStep(st, i, j, modified_file, modified_content),
                      i, gcode_template, original_content, temps, out, j + 1)

\* the outer loop, lines 104-105, from the i-th template on
RECURSIVE RenderLoop(_, _, _, _, _)
RenderLoop(st, templates, temps, out, i) ==
    IF i > Len(templates) THEN st
    ELSE
      LET gcode_template == templates[i]
          original_content == ReadText(st.files, gcode_template)
      IN  RenderLoop(RenderTemps(st, i, gcode_template, original_content,
                                 temps, out, 1),
                     templates, temps, out, i + 1)

\* line 102 and the state the loops leave
RenderReport(count, st) ==
    [ reported |-> count, files |-> st.files, written |-> st.written ]

\* the inner loop is left after the first temperature
render_first_temp_only(templates, temps, out, files) ==
    RenderReport(Len(templates) * Len(temps),
                 RenderLoop([files |-> files, written |-> << >>], templates,
                            IF temps = << >> THEN temps ELSE <<temps[1]>>,
                            out, 1))

render_gcode_templates(templates, temps, out, files) ==
    RenderReport(Len(templates) * Len(temps),
                 RenderLoop([files |-> files, written |-> << >>],
                            templates, temps, out, 1))

---------------------------------------------------------------------------
(* The inputs the model draws from *)

TemplatesDir == "templates"
OutDir == "out"

\* file names that templates.glob("*.gtemplate") can return
TemplateNames ==
    { "part_##NOZZLETEMP##_v1.gtemplate",
      "a.b_##NOZZLETEMP##.gtemplate",
      "plain.gtemplate" }

TemplateContents ==
    { "M104 ##NOZZLETEMP## ; set temp",
      "; ##NOZZLETEMP##\nM104 ##NOZZLETEMP##NOZZLETEMP##",
      "##NOZZLETEMP## M104" }

TempPool == {200, 230}

\* a file an earlier run has left in the output directory
StaleFiles == ("part_230C_v1.gcode" :> "M104 S0")

SeqsUpTo(S, n) == UNION { [1..k -> S] : k \in 0..n }

Range(f) == { f[x] : x \in DOMAIN f }

NoArgs == [ templates |-> << >>, output |-> << >>,
            temps_preset |-> << >>, temps_custom |-> << >> ]

---------------------------------------------------------------------------
(* Calls of the validator and the renderer on arbitrary arguments *)

Init ==
    /\ \E names \in SeqsUpTo(TemplateNames, MaxTemplates) :
         \E contents \in [Range(names) -> TemplateContents] :
           /\ gcode_templates =
                [ k \in DOMAIN names |-> Join(TemplatesDir, names[k]) ]
           /\ fs = (TemplatesDir :> contents) @@ (OutDir :> StaleFiles)
    /\ fs0 = fs
    /\ nozzle_temps \in SeqsUpTo(TempPool, MaxTemps)
    /\ output \in {TemplatesDir, OutDir}
    /\ validated = << >>
    /\ written = << >>
    /\ reported = << >>
    /\ renders = 0
    /\ argv = NoArgs
    /\ stdin = ""
    /\ exit = << >>
    /\ phases = << >>

Validate ==
    /\ validated' = << validate_gcode_templates(gcode_templates, fs) >>
    /\ UNCHANGED <<fs, fs0, gcode_templates, nozzle_temps, output, written,
                   reported, renders, argv, stdin, exit, phases>>

Render ==
    /\ renders < MaxRenders
    /\ \E r \in { render_gcode_templates(gcode_templates, nozzle_temps,
                                          output, fs) } :
           /\ fs' = r.files
           /\ written' = r.written
           /\ reported' = << r.reported >>
    /\ renders' = renders + 1
    /\ UNCHANGED <<fs0, gcode_templates, nozzle_temps, output, validated,
                   argv, stdin, exit, phases>>

Next == Validate \/ Render

Spec == Init /\ [][Next]_vars

---------------------------------------------------------------------------
(* Orchestrator, lines 124-251 *)

\* how a run of main ends: a return value, or an exception with the exit
\* status the interpreter gives it
Return(code) == [kind |-> "return", code |-> code]
Raise(kind, code) == [kind |-> kind, code |-> code]

\* parser.parse_args, lines 170-216: the options are stored in the namespace
\* under the names argparse derives from the long option strings
parse_args(options) ==
    IF \/ options.output = << >>
       \/ (options.temps_preset # << >>
           /\ options.temps_preset[1] \notin DOMAIN NOZZLE_TEMP_PRESETS)
       \/ (options.temps_preset = << >>) = (options.temps_custom = << >>)
    THEN [ ok |-> FALSE, args |-> NoArgs ]
    ELSE [ ok |-> TRUE,
           args |-> [ templates |-> options.templates,
                      output |-> options.output,
                      temps_preset |-> options.temps_preset,
                      temps_custom |-> options.temps_custom ] ]

\* whether reading args.<name> succeeds
HasAttr(args, name) == name \in DOMAIN args

\* dict.get: << >> stands for None
DictGet(d, key) == IF key \in DOMAIN d THEN << d[key] >> ELSE << >>

\* templates.glob("*.gtemplate"), line 236, the entries in directory order
RECURSIVE Glob(_, _, _, _)
Glob(dir, listing, suffix, i) ==
    IF i > Len(listing) THEN << >>
    ELSE IF EndsWith(listing[i], suffix)
         THEN <<Join(dir, listing[i])>> \o Glob(dir, listing, suffix, i + 1)
         ELSE Glob(dir, listing, suffix, i + 1)

\* the orderings in which a directory can list its entries
Listings(files, dir) ==
    LET names == DOMAIN files[dir]
    IN  { l \in [1..Cardinality(names) -> names] :
            \A a, b \in DOMAIN l : l[a] = l[b] => a = b }

\* what a run leaves behind
Outcome(ex, ph, files, templates, temps, vr, wr, rep, n) ==
    [ exit |-> ex, phases |-> ph, files |-> files,
      gcode_templates |-> templates, nozzle_temps |-> temps,
      validated |-> vr, written |-> wr, reported |-> rep, renders |-> n ]

Crash(ex, ph, files) ==
    Outcome(ex, ph, files, << >>, << >>, << >>, << >>, << >>, 0)

\* lines 236-251, once the temperatures are resolved
MainPipeline(files, templates, out, temps, listing, answer) ==
    LET candidates == Glob(templates, listing, GCODE_TEMPLATE_SUFFIX, 1)
        resolving == <<"ResolvingInputs", "AwaitingConfirmation">>
    IN  IF Lower(answer) \notin {"", " ", "yes", "y"}
        THEN Outcome(Return(1), resolving \o <<"Aborted">>, files,
                     candidates, temps, << >>, << >>, << >>, 0)
        ELSE
          LET vr == validate_gcode_templates(candidates, files)
          IN  IF ~vr.ok
              THEN Outcome(Return(1),
                           resolving \o <<"Validating", "ValidationFailed">>,
                           files, candidates, temps, <<vr>>, << >>, << >>, 0)
              ELSE
                LET r == render_gcode_templates(candidates, temps, out, files)
                IN  Outcome(Return(0),
                            resolving \o <<"Validating", "Rendering", "Done">>,
                            r.files, candidates, temps, <<vr>>, r.written,
                            <<r.reported>>, 1)

\* lines 216-234, then the pipeline
main(options, files, listing, answer) ==
    LET parsed == parse_args(options)
        args == parsed.args
        start == <<"ResolvingInputs">>
    IN  IF ~parsed.ok THEN Crash(Raise("SystemExit", 2), start, files)
        ELSE IF args.templates = << >>
        THEN Crash(Raise("AttributeError", 1), start, files)
        ELSE IF ~IsDir(files, args.templates[1])
        THEN Crash(Raise("SystemExit", 2), start, files)
        ELSE IF ~IsDir(files, args.output[1])
        THEN Crash(Raise("SystemExit", 2), start, files)
        ELSE IF ~HasAttr(args, "nozzle_temps_custom")
        THEN Crash(Raise("AttributeError", 1), start, files)
        ELSE IF args["nozzle_temps_custom"] # << >>
        THEN MainPipeline(files, args.templates[1], args.output[1],
                          args["nozzle_temps_custom"][1], listing, answer)
        ELSE IF ~HasAttr(args, "nozzle_temps_preset")
        THEN Crash(Raise("AttributeError", 1), start, files)
        ELSE IF args["nozzle_temps_preset"] = << >>
                \/ DictGet(NOZZLE_TEMP_PRESETS,
                           args["nozzle_temps_preset"][1]) = << >>
        THEN Crash(Raise("ValueError", 1), start, files)
        ELSE MainPipeline(files, args.templates[1], args.output[1],
                          DictGet(NOZZLE_TEMP_PRESETS,
                                  args["nozzle_temps_preset"][1])[1],
                          listing, answer)

DirectoryNames == TemplateNames \cup {"notes.txt"}

Answers == {"", " ", "y", "YES", "n"}

InitMain ==
    /\ \E names \in { S \in SUBSET DirectoryNames :
                        Cardinality(S) <= MaxTemplates } :
         \E contents \in [names -> TemplateContents] :
            fs = (TemplatesDir :> contents) @@ (OutDir :> << >>)
    /\ fs0 = fs
    /\ argv \in
         [ templates : {<< >>, <<TemplatesDir>>, <<"missing">>},
           output : {<< >>, <<OutDir>>, <<TemplatesDir>>, <<"missing">>},
           temps_preset : {<< >>, <<"PLA">>, <<"PETG-CF">>, <<"ABS">>},
           temps_custom :
             {<< >>} \cup { <<t>> : t \in SeqsUpTo(TempPool, MaxTemps) \ {<< >>} } ]
    /\ stdin \in Answers
    /\ gcode_templates = << >>
    /\ nozzle_temps = << >>
    /\ output = OutDir
    /\ validated = << >>
    /\ written = << >>
    /\ reported = << >>
    /\ renders = 0
    /\ exit = << >>
    /\ phases = << >>

Main ==
    /\ exit = << >>
    /\ \E listing \in Listings(fs, IF argv.templates # << >>
                                      /\ IsDir(fs, argv.templates[1])
                                   THEN argv.templates[1] ELSE TemplatesDir) :
         \E r \in { main(argv, fs, listing, stdin) } :
             /\ exit' = << r.exit >>
             /\ phases' = r.phases
             /\ fs' = r.files
             /\ gcode_templates' = r.gcode_templates
             /\ nozzle_temps' = r.nozzle_temps
             /\ validated' = r.validated
             /\ written' = r.written
             /\ reported' = r.reported
             /\ renders' = r.renders
    /\ output' = (IF parse_args(argv).ok /\ argv.templates # << >>
                  THEN argv.output[1] ELSE output)
    /\ UNCHANGED <<fs0, argv, stdin>>

NextMain == Main

SpecMain == InitMain /\ [][NextMain]_vars

---------------------------------------------------------------------------
(* Vocabulary of the properties, stated without the operators above *)

Token == "##NOZZLETEMP##"

\* sub occurs in s at position i
OccursAt(s, sub, i) ==
    /\ i + Len(sub) - 1 <= Len(s)
    /\ SubSeq(s, i, i + Len(sub) - 1) = sub

Occurs(s, sub) == \E i \in 1..Len(s) : OccursAt(s, sub, i)

\* the decimal numeral of a natural number
RECURSIVE Dec(_)
Dec(n) ==
    LET d == SubSeq("0123456789", (n % 10) + 1, (n % 10) + 1)
    IN  IF n < 10 THEN d ELSE Dec(n \div 10) \o d

\* s cut at the occurrences of sep, leftmost first
RECURSIVE SplitStr(_, _)
SplitStr(s, sep) ==
    IF ~Occurs(s, sep) THEN <<s>>
    ELSE LET i == CHOOSE p \in 1..Len(s) :
                      /\ OccursAt(s, sep, p)
                      /\ \A q \in 1..(p - 1) : ~OccursAt(s, sep, q)
         IN  <<SubSeq(s, 1, i - 1)>>
             \o SplitStr(SubSeq(s, i + Len(sep), Len(s)), sep)

RECURSIVE JoinStr(_, _)
JoinStr(parts, sep) ==
    IF Len(parts) = 1 THEN parts[1]
    ELSE parts[1] \o sep \o JoinStr(Tail(parts), sep)

\* s with every occurrence of old replaced by new
Substituted(s, old, new) == JoinStr(SplitStr(s, old), new)

\* the content a candidate had at start-up
Original(t) == fs0[t.dir][t.name]

FailsFilename(t) == ~Occurs(t.name, Token)
FailsContent(t) == ~Occurs(Original(t), "M104 ##NOZZLETEMP##")

\* errs lists the names of the candidates at the positions in bad, ascending
ListsExactly(errs, bad) ==
    /\ Len(errs) = Cardinality(bad)
    /\ \A m \in 1..Len(errs) :
         \E k \in bad : /\ Cardinality({x \in bad : x < k}) = m - 1
                        /\ errs[m] = gcode_templates[k].name

WrittenPaths == { written[k].path : k \in DOMAIN written }

\* the candidates are pairwise distinct and all pass both checks
ValidCandidateSet ==
    /\ \A a, b \in DOMAIN gcode_templates :
          gcode_templates[a] = gcode_templates[b] => a = b
    /\ \A k \in DOMAIN gcode_templates :
          ~FailsFilename(gcode_templates[k]) /\ ~FailsContent(gcode_templates[k])

---------------------------------------------------------------------------
(* Properties of the validator and the renderer, under Spec *)

\* C1 as stated: after render on a valid candidate set and a non-empty
\* temperature list, the renderer has left |candidates| x |temperatures|
\* distinct files, one per pair, and the reported count is the number of
\* files written.
C1_OneFilePerPair ==
    (renders >= 1 /\ ValidCandidateSet /\ nozzle_temps # << >>) =>
        /\ Cardinality(WrittenPaths) = Len(gcode_templates) * Len(nozzle_temps)
        /\ reported = << Cardinality(WrittenPaths) >>

\* C1 amended: render performs exactly |candidates| x |temperatures| writes,
\* one per pair in loop order, which is the count it reports; the files it
\* leaves are the written paths, at most that many, each holding the content
\* of the last write to it, and nothing else in the output directory changes.
C1_OneWritePerPair ==
    (renders >= 1 /\ ValidCandidateSet /\ nozzle_temps # << >>) =>
        LET nc == Len(gcode_templates)
            nt == Len(nozzle_temps)
        IN  /\ reported = << nc * nt >>
            /\ Len(written) = nc * nt
            /\ \A i \in 1..nc : \A j \in 1..nt :
                 /\ written[(i - 1) * nt + j].i = i
                 /\ written[(i - 1) * nt + j].j = j
            /\ Cardinality(WrittenPaths) <= nc * nt
            /\ \A k \in DOMAIN written :
                 /\ written[k].path.dir = output
                 /\ written[k].path.name \in DOMAIN fs[output]
                 /\ (\A l \in DOMAIN written :
                        written[l].path = written[k].path => l <= k)
                    => fs[output][written[k].path.name] = written[k].content
            /\ DOMAIN fs[output] =
                 DOMAIN fs0[output] \cup { q.name : q \in WrittenPaths }

C1_Witness ==
    /\ renders >= 1 /\ ValidCandidateSet
    /\ Len(gcode_templates) = 2 /\ Len(nozzle_temps) = 2
    /\ Len(written) = 4
    /\ Cardinality(WrittenPaths) < 4

\* C2 as stated: the file written for template name n and temperature t is
\* named n with the trailing ".gtemplate" replaced by ".gcode" and every
\* "##NOZZLETEMP##" replaced by the decimal t followed by "C".
C2_RenderedName ==
    \A k \in DOMAIN written :
        LET n == gcode_templates[written[k].i].name
            t == nozzle_temps[written[k].j]
            base == SubSeq(n, 1, Len(n) - Len(".gtemplate"))
        IN  written[k].path.name
              = Substituted(base, Token, Dec(t) \o "C") \o ".gcode"

\* C3: validate returns False iff some candidate fails the filename or the
\* content check, and each violation list holds exactly the violating names,
\* over all candidates, duplicates kept, in input order.
C3_ValidateComplete ==
    validated # << >> =>
        LET r == validated[1]
            badName == { k \in DOMAIN gcode_templates :
                            FailsFilename(gcode_templates[k]) }
            badContent == { k \in DOMAIN gcode_templates :
                            FailsContent(gcode_templates[k]) }
        IN  /\ (r.ok = FALSE) <=> (badName # {} \/ badContent # {})
            /\ ListsExactly(r.filename_errors, badName)
            /\ ListsExactly(r.content_errors, badContent)

C3_Witness ==
    /\ validated # << >>
    /\ validated[1].ok = FALSE
    /\ Len(validated[1].filename_errors) >= 1
    /\ Len(validated[1].content_errors) >= 2

\* C4: the content written for (template, t) is the template's content with
\* every occurrence of the placeholder replaced by "S" and the decimal t, and
\* holds no occurrence of the placeholder.
C4_RenderedContent ==
    \A k \in DOMAIN written :
        LET c == Original(gcode_templates[written[k].i])
            t == nozzle_temps[written[k].j]
        IN  /\ written[k].content = Substituted(c, Token, "S" \o Dec(t))
            /\ ~Occurs(written[k].content, Token)
            /\ (c = "M104 ##NOZZLETEMP## ; set temp" /\ t = 230)
                  => written[k].content = "M104 S230 ; set temp"

C4_Witness ==
    \E k \in DOMAIN written :
        /\ Original(gcode_templates[written[k].i])
             = "; ##NOZZLETEMP##\nM104 ##NOZZLETEMP##NOZZLETEMP##"
        /\ written[k].content = "; S230\nM104 S230NOZZLETEMP##"

\* C9: a render call after the first one leaves the output directory, and
\* the whole file system, as the first one left it.
C9_RenderIdempotent ==
    [][(renders >= 1 /\ renders' = renders + 1) => fs' = fs]_vars

C9_Witness ==
    /\ renders = MaxRenders
    /\ renders >= 2
    /\ written # << >>
    /\ fs # fs0

\* C10: every candidate keeps its name and content whatever is called and
\* whichever the output directory is; every path render writes ends in
\* ".gcode", lies directly in the output directory and is no candidate's path.
C10_TemplatesUntouched ==
    /\ \A k \in DOMAIN gcode_templates :
         LET t == gcode_templates[k]
         IN  /\ t.name \in DOMAIN fs[t.dir]
             /\ fs[t.dir][t.name] = Original(t)
    /\ \A k \in DOMAIN written :
         LET q == written[k].path
         IN  /\ Len(q.name) >= Len(".gcode")
             /\ SubSeq(q.name, Len(q.name) - Len(".gcode") + 1, Len(q.name))
                  = ".gcode"
             /\ q.dir = output
             /\ ~Occurs(q.name, "/")
             /\ \A m \in DOMAIN gcode_templates : gcode_templates[m] # q

C10_Witness ==
    /\ renders >= 1
    /\ validated # << >>
    /\ output = TemplatesDir
    /\ written # << >>
    /\ \E k \in DOMAIN gcode_templates : FailsFilename(gcode_templates[k])

---------------------------------------------------------------------------
(* Properties of main, under SpecMain *)

\* main was given existing directories and exactly one temperature source
WellFormedRun ==
    /\ argv.templates # << >> /\ argv.templates[1] \in DOMAIN fs0
    /\ argv.output # << >> /\ argv.output[1] \in DOMAIN fs0
    /\ \/ argv.temps_custom # << >> /\ argv.temps_preset = << >>
       \/ /\ argv.temps_custom = << >>
          /\ argv.temps_preset \in {<<"PLA">>, <<"PETG">>, <<"PETG-CF">>}

\* the candidates main discovers in the templates directory
Discovered ==
    { [dir |-> argv.templates[1], name |-> n] :
        n \in { m \in DOMAIN fs0[argv.templates[1]] :
                  /\ Len(m) >= Len(".gtemplate")
                  /\ OccursAt(m, ".gtemplate", Len(m) - Len(".gtemplate") + 1) } }

Finished == exit # << >>

\* C5 as stated: when a discovered candidate violates the filename or the
\* content contract, main writes no file and returns 1, and render is only
\* entered after validate returned True.
C5_ValidationGate ==
    (Finished /\ WellFormedRun) =>
        /\ (\E t \in Discovered : FailsFilename(t) \/ FailsContent(t))
              => (fs = fs0 /\ exit = << [kind |-> "return", code |-> 1] >>)
        /\ renders >= 1 => (validated # << >> /\ validated[1].ok)

\* C6 as stated: an answer outside {"y", "yes", "", " "} aborts the run with
\* nothing written, nothing validated or rendered and return value 1; the
\* answers "" and "y" let the run proceed to validation.
C6_ConfirmationGate ==
    (Finished /\ WellFormedRun) =>
        /\ stdin \notin {"y", "yes", "", " "}
              => /\ exit = << [kind |-> "return", code |-> 1] >>
                 /\ fs = fs0
                 /\ validated = << >>
                 /\ renders = 0
        /\ stdin \in {"", "y"}
              => (\E k \in DOMAIN phases : phases[k] = "Validating")

\* C7 as stated: with exactly one temperature source the resolution completes
\* without error and yields the custom list, or else the preset's list.
C7_TemperatureResolution ==
    (Finished /\ WellFormedRun) =>
        /\ exit[1].kind = "return"
        /\ argv.temps_custom # << >> => nozzle_temps = argv.temps_custom[1]
        /\ argv.temps_preset = <<"PLA">>
              => nozzle_temps = <<230, 225, 220, 215, 210, 205, 200, 195, 190>>
        /\ argv.temps_preset \in {<<"PETG">>, <<"PETG-CF">>}
              => nozzle_temps
                   = <<260, 255, 250, 245, 240, 235, 230, 225, 220, 215, 210>>

\* C8 as stated: a run with well-formed inputs goes through the orchestrator
\* states in order and ends in Aborted or ValidationFailed with return 1 or
\* in Done with return 0; it ends in Done when the answer is affirmative and
\* every candidate is valid.
C8_OrchestratorOutcome ==
    (Finished /\ WellFormedRun) =>
        /\ \/ /\ phases = <<"ResolvingInputs", "AwaitingConfirmation", "Aborted">>
              /\ exit = << [kind |-> "return", code |-> 1] >>
           \/ /\ phases = <<"ResolvingInputs", "AwaitingConfirmation",
                            "Validating", "ValidationFailed">>
              /\ exit = << [kind |-> "return", code |-> 1] >>
           \/ /\ phases = <<"ResolvingInputs", "AwaitingConfirmation",
                            "Validating", "Rendering", "Done">>
              /\ exit = << [kind |-> "return", code |-> 0] >>
        /\ (/\ stdin \in {"y", "yes", "", " "}
            /\ \A t \in Discovered : ~FailsFilename(t) /\ ~FailsContent(t))
              => exit = << [kind |-> "return", code |-> 0] >>

====
